---- MODULE Spec2Model ----
(***************************************************************************)
(* Model of scripts/gen_output/help.rs: discovery of a command tree from   *)
(* --help output  , rendering of the markdown reference and the merge of   *)
(* the generated summary into the root SUMMARY.md.                         *)
(*                                                                         *)
(* A string is a sequence of symbols.  A symbol is a fixed piece of text:  *)
(* a single character (" ", "\n", "/", ".", "$") or a literal that the     *)
(* program searches for as a whole ("Commands:", "Usage:", the section     *)
(* markers) or a word ("a", "help", "app").  No literal can be formed by   *)
(* juxtaposing other symbols, so searching for a literal in the text is    *)
(* searching for its symbol in the sequence.  In a symbol, <bt> stands for *)
(* the backtick character.                                                 *)
(***************************************************************************)
EXTENDS Integers, Sequences, FiniteSets, TLC

VARIABLES
    commands,           \* args.commands: the seed binary paths
    readme,             \* args.readme
    root_summary,       \* args.root_summary
    root_indentation,   \* args.root_indentation
    todo_iter,          \* main: the worklist (a Vec used as a stack, top = last)
    output,             \* main: the IndexMap, a sequence of [key, value] entries
    pc,                 \* main: position of the run
    helps,              \* the target binaries: help text of every command invoked so far
    invoked,            \* history: the commands popped and invoked, in order
    invocation_failed,  \* history: some invocation returned an error
    writes,             \* history: the file writes made by rendering, in order
    out_files,          \* the files under out_dir: path -> content
    summary_file,       \* content of <root_dir>/SUMMARY.md
    merge,              \* merge runs: inputs and results of update_root_summary
    parse               \* parser runs: input and result of parse_sub_commands

vars == <<commands, readme, root_summary, root_indentation, todo_iter, output, pc,
          helps, invoked, invocation_failed, writes, out_files, summary_file,
          merge, parse>>

-----------------------------------------------------------------------------
(* Bounds *)

MaxTextLen == 6
MaxIndexLen == 4
MaxFragLen == 2
MaxSeeds == 2
MaxCmds == 4

-----------------------------------------------------------------------------
(* Program constants *)

SECTION_START == "<!-- CLI_REFERENCE START -->"
SECTION_END == "<!-- CLI_REFERENCE END -->"

-----------------------------------------------------------------------------
(* Strings *)

Min(S) == CHOOSE x \in S : \A y \in S : x <= y
Max(S) == CHOOSE x \in S : \A y \in S : x >= y

\* char::is_whitespace, on the symbols of the model
IsSpace(c) == c \in {" ", "\n"}

\* All strings of at most n symbols of A
StringsUpTo(A, n) == UNION {[1..k -> A] : k \in 0..n}

\* index of the first occurrence of symbol c in s, 0 when absent (str::find)
Find(s, c) ==
    LET P == {i \in 1..Len(s) : s[i] = c}
    IN  IF P = {} THEN 0 ELSE Min(P)

\* s[i..] in Rust terms, with a one-based i
From(s, i) == SubSeq(s, i, Len(s))

RECURSIVE Flatten(_)
\* concatenation of a sequence of strings
Flatten(ss) == IF ss = <<>> THEN <<>> ELSE Head(ss) \o Flatten(Tail(ss))

RECURSIVE Join(_, _)
\* [String]::join(sep)
Join(ss, sep) ==
    IF ss = <<>> THEN <<>>
    ELSE IF Len(ss) = 1 THEN Head(ss)
    ELSE Head(ss) \o sep \o Join(Tail(ss), sep)

RECURSIVE Split(_, _)
\* str::split(sep): the pieces between the occurrences of sep, at least one piece
Split(s, sep) ==
    LET i == Find(s, sep)
    IN  IF i = 0 THEN <<s>>
        ELSE <<SubSeq(s, 1, i - 1)>> \o Split(From(s, i + 1), sep)

\* str::lines: split at line feeds, a final empty piece is not a line
Lines(s) ==
    LET p == Split(s, "\n")
    IN  IF p[Len(p)] = <<>> THEN SubSeq(p, 1, Len(p) - 1) ELSE p

\* str::trim_end
TrimEnd(s) ==
    LET P == {i \in 1..Len(s) : ~IsSpace(s[i])}
    IN  IF P = {} THEN <<>> ELSE SubSeq(s, 1, Max(P))

\* str::trim_start
TrimStart(s) ==
    LET P == {i \in 1..Len(s) : ~IsSpace(s[i])}
    IN  IF P = {} THEN <<>> ELSE From(s, Min(P))

\* str::trim
Trim(s) == TrimStart(TrimEnd(s))

\* str::starts_with for a one-symbol literal
StartsWith(s, c) == Len(s) >= 1 /\ s[1] = c

\* str::replace(from, to) for one-symbol from
Replace(s, from, to) ==
    Flatten([i \in 1..Len(s) |-> IF s[i] = from THEN to ELSE <<s[i]>>])

-----------------------------------------------------------------------------
(* Help-text parser *)

\* the capture of regex ^  (\S+) in a line: <<token>>, or <<>> when no match
SubCommandCapture(line) ==
    IF Len(line) >= 3 /\ line[1] = " " /\ line[2] = " " /\ ~IsSpace(line[3])
    THEN LET sp == {i \in 3..Len(line) : IsSpace(line[i])}
             e  == IF sp = {} THEN Len(line) ELSE Min(sp) - 1
         IN  <<SubSeq(line, 3, e)>>
    ELSE <<>>

\* take_while(|line| !line.starts_with("Options:") && !line.starts_with("Arguments:"))
TakeUntilSectionEnd(lines) ==
    LET stop == {i \in 1..Len(lines) :
                    StartsWith(lines[i], "Options:") \/ StartsWith(lines[i], "Arguments:")}
    IN  IF stop = {} THEN lines ELSE SubSeq(lines, 1, Min(stop) - 1)

\* the mutant of SubCommandsOfSection: the filter on "help" is missing
SubCommandsOfSectionKeepHelp(commands_section) ==
    LET scanned == TakeUntilSectionEnd(Lines(commands_section))
    IN  Flatten([i \in 1..Len(scanned) |-> SubCommandCapture(scanned[i])])

\* the closure of parse_sub_commands applied to the commands section
SubCommandsOfSection(commands_section) ==
    LET scanned == TakeUntilSectionEnd(Lines(commands_section))
        caps    == Flatten([i \in 1..Len(scanned) |-> SubCommandCapture(scanned[i])])
        NotHelp(cmd) == cmd # <<"help">>
    IN  SelectSeq(caps, NotHelp)

\* s.split("Commands:").nth(1)
CommandsSection(s) ==
    LET pieces == Split(s, "Commands:")
    IN  IF Len(pieces) >= 2 THEN <<pieces[2]>> ELSE <<>>

\* fn parse_sub_commands
parse_sub_commands(s) ==
    LET sec == CommandsSection(s)
    IN  IF sec = <<>> THEN <<>> ELSE SubCommandsOfSection(sec[1])

-----------------------------------------------------------------------------
(* Command model *)

\* struct Cmd
Cmd(path, subcommands) == [cmd |-> path, subcommands |-> subcommands]

\* Cmd::new
CmdNew(path) == Cmd(path, <<>>)

\* Cmd::command_name: Path::file_name, the last component of the path
command_name(c) ==
    LET comps == Split(c.cmd, "/")
    IN  comps[Len(comps)]

\* impl Display for Cmd
Display(c) ==
    IF c.subcommands = <<>> THEN command_name(c)
    ELSE command_name(c) \o <<" ">> \o Join(c.subcommands, <<" ">>)

-----------------------------------------------------------------------------
(* Description and document *)

\* fn parse_description: <<description, rest>>
parse_description(s) ==
    LET idx == Find(s, "Usage:")
    IN  IF idx = 0 THEN << <<>>, s >>
        ELSE LET ls == Lines(Trim(SubSeq(s, 1, idx - 1)))
             IN  << IF ls = <<>> THEN <<>> ELSE ls[1], From(s, idx) >>

\* fn preprocess_help: the list of replacement patterns is empty
preprocess_help(s) == s

\* fn help_markdown
help_markdown(c, stdout) ==
    LET d == parse_description(stdout)
    IN  d[1] \o <<"\n", "\n", "<bt><bt><bt>bash", "\n", "$", " ">> \o Display(c)
             \o <<" ", "--help", "\n">> \o preprocess_help(Trim(d[2])) \o <<"\n", "<bt><bt><bt>">>

\* Path::join for a relative second path
PathJoin(dir, rel) == dir \o <<"/">> \o rel

\* Path::with_extension("md"): the extension of the file name is replaced
WithExtensionMd(path) ==
    LET comps == Split(path, "/")
        name  == comps[Len(comps)]
        dots  == {i \in 2..Len(name) : name[i] = "."}
        stem  == IF dots = {} THEN name ELSE SubSeq(name, 1, Max(dots) - 1)
    IN  SubSeq(path, 1, Len(path) - Len(name)) \o stem \o <<".", "md">>

\* args.out_dir, one fixed directory
OutDir == <<"out">>

\* cmd_markdown: the path of the document of a command
DocPath(c) == WithExtensionMd(PathJoin(OutDir, Replace(Display(c), " ", <<"/">>)))

\* cmd_markdown: the content of the document of a command
DocContent(c, stdout) ==
    <<"#", " ">> \o Display(c) \o <<"\n", "\n">> \o help_markdown(c, stdout)

\* const README
README == <<"# CLI Reference ... {{#include ./SUMMARY.md}}", "\n">>

-----------------------------------------------------------------------------
(* Summary listing *)

\* " ".repeat(n)
Spaces(n) == [i \in 1..n |-> " "]

\* the mutant of cmd_summary: one space per segment instead of two
cmd_summary_one_space(md_root, c, indent) ==
    LET cmd_s == Display(c)
        cmd_path == Replace(cmd_s, " ", <<"/">>)
        full_cmd_path == IF md_root = <<>> THEN cmd_path
                         ELSE md_root[1] \o <<"/">> \o cmd_path
    IN  Spaces(indent + Len(c.subcommands))
            \o <<"- [<bt>">> \o cmd_s \o <<"<bt>](./">> \o full_cmd_path \o <<".md)", "\n">>

\* fn cmd_summary; md_root is <<>> for None and <<path>> for Some(path)
cmd_summary(md_root, c, indent) ==
    LET cmd_s == Display(c)
        cmd_path == Replace(cmd_s, " ", <<"/">>)
        full_cmd_path == IF md_root = <<>> THEN cmd_path
                         ELSE md_root[1] \o <<"/">> \o cmd_path
    IN  Spaces(indent + (Len(c.subcommands) * 2))
            \o <<"- [<bt>">> \o cmd_s \o <<"<bt>](./">> \o full_cmd_path \o <<".md)", "\n">>

\* the keys of the IndexMap, in insertion order
Keys(map) == [i \in 1..Len(map) |-> map[i].key]

\* main: the content of out_dir/SUMMARY.md
SummaryText(map) ==
    Flatten([i \in 1..Len(map) |-> cmd_summary(<<>>, map[i].key, 0)]) \o <<"\n">>

\* pathdiff::diff_paths(out_dir, root_dir), for root_dir "." and out_dir "out"
RootPath == << <<"out">> >>

\* main: the fragment handed to update_root_summary
RootSummaryText(map, indent) ==
    Flatten([i \in 1..Len(map) |-> cmd_summary(RootPath, map[i].key, indent)])

-----------------------------------------------------------------------------
(* Root summary merge *)

\* the mutant of SectionMatch: any end marker of the file closes the section
SectionMatchAnyEnd(content) ==
    LET st   == Find(content, SECTION_START)
        ends == IF st = 0 THEN {}
                ELSE {i \in 1..Len(content) : content[i] = SECTION_END}
    IN  IF ends = {} THEN <<>>
        ELSE LET nonsp == {i \in 1..(st - 1) : ~IsSpace(content[i])}
             IN  <<IF nonsp = {} THEN 1 ELSE Max(nonsp) + 1, Min(ends)>>

\* the mutant of SectionMatch: .* in place of .*?, the match runs to the last end marker
SectionMatchGreedy(content) ==
    LET st   == Find(content, SECTION_START)
        ends == IF st = 0 THEN {}
                ELSE {i \in (st + 1)..Len(content) : content[i] = SECTION_END}
    IN  IF ends = {} THEN <<>>
        ELSE LET nonsp == {i \in 1..(st - 1) : ~IsSpace(content[i])}
             IN  <<IF nonsp = {} THEN 1 ELSE Max(nonsp) + 1, Max(ends)>>

\* section_re, (?s)\s*START.*?END: <<first, last>> positions of the leftmost match,
\* <<>> when the content has no match
SectionMatch(content) ==
    LET st   == Find(content, SECTION_START)
        ends == IF st = 0 THEN {}
                ELSE {i \in (st + 1)..Len(content) : content[i] = SECTION_END}
    IN  IF ends = {} THEN <<>>
        ELSE LET nonsp == {i \in 1..(st - 1) : ~IsSpace(content[i])}
             IN  <<IF nonsp = {} THEN 1 ELSE Max(nonsp) + 1, Min(ends)>>

\* section_end_re, .*END: the leftmost match, which starts at the beginning of the
\* first line holding an end marker and runs to the last end marker of that line
LastLine(content) ==
    LET e1  == Find(content, SECTION_END)
        nlb == {i \in 1..(e1 - 1) : content[i] = "\n"}
        nla == {i \in (e1 + 1)..Len(content) : content[i] = "\n"}
        ls  == IF nlb = {} THEN 1 ELSE Max(nlb) + 1
        le  == IF nla = {} THEN Len(content) ELSE Min(nla) - 1
    IN  SubSeq(content, ls, Max({i \in e1..le : content[i] = SECTION_END}))

RECURSIVE ReplaceBlankLines(_)
\* str::replace("\n\n", "\n"): one pass, left to right, matches do not overlap
ReplaceBlankLines(s) ==
    IF Len(s) < 2 THEN s
    ELSE IF s[1] = "\n" /\ s[2] = "\n" THEN <<"\n">> \o ReplaceBlankLines(From(s, 3))
    ELSE <<s[1]>> \o ReplaceBlankLines(Tail(s))

\* the symbols made of the characters of a capture group name, [0-9A-Za-z_]
IsNameSym(c) == c \in {"a", "0", "x", "y", "help", "app", "tool", "out", "md"}

RECURSIVE Expand(_, _)
\* Regex::replace with a &str replacement expands $name and $$ in it; the pattern
\* has no capture group, so a name that is a number 0 is the whole match and any
\* other name is empty
Expand(rep, whole) ==
    IF rep = <<>> THEN <<>>
    ELSE IF rep[1] # "$" THEN <<rep[1]>> \o Expand(Tail(rep), whole)
    ELSE IF Len(rep) >= 2 /\ rep[2] = "$" THEN <<"$">> \o Expand(From(rep, 3), whole)
    ELSE LET stop == {i \in 2..Len(rep) : ~IsNameSym(rep[i])}
             e    == IF stop = {} THEN Len(rep) ELSE Min(stop) - 1
             name == SubSeq(rep, 2, e)
         IN  IF name = <<>> THEN <<"$">> \o Expand(Tail(rep), whole)
             ELSE (IF \A i \in 1..Len(name) : name[i] = "0" THEN whole ELSE <<>>)
                      \o Expand(From(rep, e + 1), whole)

\* update_root_summary: the replacement text
ReplaceWith(content, root_summary_text) ==
    <<" ", SECTION_START, "\n">> \o ReplaceBlankLines(TrimEnd(root_summary_text))
        \o <<"\n">> \o LastLine(content)

MissingMarkers == "missing_markers"

\* fn update_root_summary up to File::create: the exit for missing markers, or the
\* new content to write
update_root_summary(content, root_summary_text) ==
    LET m == SectionMatch(content)
    IN  IF m = <<>> THEN [status |-> MissingMarkers, new |-> content]
        ELSE [status |-> "write",
              new |-> SubSeq(content, 1, m[1] - 1)
                          \o Expand(ReplaceWith(content, root_summary_text),
                                    SubSeq(content, m[1], m[2]))
                          \o From(content, m[2] + 1)]

\* File::create and write_all on the summary file: the outcomes and the content each
\* leaves (File::create truncates, so a failed write_all leaves what was written)
WriteOutcomes == {"ok", "create_failed", "write_failed"}

FileAfterWrite(outcome, old, new) ==
    CASE outcome = "ok" -> new
      [] outcome = "create_failed" -> old
      [] outcome = "write_failed" -> <<>>

-----------------------------------------------------------------------------
(* The run of main *)

\* the seed binaries the runs are given: two of them share their file name
Binaries == {<<"a", "/", "app">>, <<"b", "/", "app">>, <<"tool">>}

\* the lists of subcommand lines the help texts of the target binaries show: none,
\* one, two, the help pseudo-subcommand first, in the middle or last, a name twice
ChildLists ==
    { <<>>, << <<"x">> >>, << <<"x">>, <<"y">> >>, << <<"help">>, <<"y">> >>,
      << <<"y">>, <<"help">> >>, << <<"x">>, <<"help">>, <<"y">> >>, << <<"x">>, <<"x">> >> }

\* a help text as clap prints it: description, usage, the commands listed, options
HelpText(names) ==
    <<"a", "\n", "\n", "Usage:", " ", "a", "\n">>
        \o (IF names = <<>> THEN <<>>
            ELSE <<"\n", "Commands:", "\n">>
                     \o Flatten([i \in 1..Len(names) |->
                                    <<" ", " ">> \o names[i] \o <<" ", " ", "a", "\n">>]))
        \o <<"\n", "Options:", "\n", " ", " ", "a", " ", " ", "a", "\n">>

\* the help texts a target binary may print
HelpTexts == {HelpText(ns) : ns \in ChildLists}

\* the root SUMMARY.md of the runs: with the section, and with no end marker
IndexWithSection ==
    <<"a", "\n", SECTION_START, "\n", " ", "a", "\n", "a", " ", SECTION_END, "\n", "a">>

IndexWithoutEnd == <<"a", " ", SECTION_START, "\n", "a", "\n">>

\* the arguments and root SUMMARY.md the runs are started with
ArgsOfRuns ==
    { [readme |-> FALSE, root_summary |-> FALSE, root_indentation |-> 2, file |-> <<>>],
      [readme |-> TRUE, root_summary |-> TRUE, root_indentation |-> 2,
       file |-> IndexWithSection],
      [readme |-> FALSE, root_summary |-> TRUE, root_indentation |-> 0,
       file |-> IndexWithSection],
      [readme |-> TRUE, root_summary |-> TRUE, root_indentation |-> 2,
       file |-> IndexWithoutEnd] }

At(at, i) == [at |-> at, i |-> i]

\* the mutant of PropagateError: the error is dropped and the loop goes on
SwallowError == At("discover", 0)

\* main: a failed get_entry is returned by the ? operator
PropagateError == At("failed", 0)

\* IndexMap::insert: a present key keeps its place and takes the new value
IndexMapInsert(map, key, value) ==
    IF \E i \in 1..Len(map) : map[i].key = key
    THEN [i \in 1..Len(map) |->
             IF map[i].key = key THEN [key |-> key, value |-> value] ELSE map[i]]
    ELSE Append(map, [key |-> key, value |-> value])

\* main: the children of cmd, pushed in reverse order of new_subcmds
PushSubcommands(todo, c, new_subcmds) ==
    todo \o [i \in 1..Len(new_subcmds) |->
                Cmd(c.cmd, Append(c.subcommands, new_subcmds[Len(new_subcmds) + 1 - i]))]

Init ==
    /\ commands \in {s \in StringsUpTo(Binaries, MaxSeeds) : Len(s) >= 1}
    /\ \E a \in ArgsOfRuns :
          /\ readme = a.readme
          /\ root_summary = a.root_summary
          /\ root_indentation = a.root_indentation
          /\ summary_file = a.file
    /\ todo_iter = [i \in 1..Len(commands) |-> CmdNew(commands[Len(commands) + 1 - i])]
    /\ output = <<>>
    /\ pc = At("start", 0)
    /\ helps = <<>>
    /\ invoked = <<>>
    /\ invocation_failed = FALSE
    /\ writes = <<>>
    /\ out_files = <<>>
    /\ merge = <<>>
    /\ parse = <<>>

\* main: fs::create_dir_all(&out_dir)?
CreateOutDir ==
    /\ pc.at = "start"
    /\ \/ pc' = At("discover", 0)
       \/ pc' = At("failed", 0)
    /\ UNCHANGED <<commands, readme, root_summary, root_indentation, todo_iter, output,
                   helps, invoked, invocation_failed, writes, out_files, summary_file,
                   merge, parse>>

\* one turn of the while loop whose get_entry succeeds: pop, invoke, push the
\* children, insert.  The binary is deterministic: a command invoked again prints
\* the same text.  The whole forest has at most MaxCmds invocations.
Discover ==
    /\ pc.at = "discover"
    /\ todo_iter # <<>>
    /\ LET cmd  == todo_iter[Len(todo_iter)]
           rest == SubSeq(todo_iter, 1, Len(todo_iter) - 1)
       IN  \E stdout \in HelpTexts :
              LET new_subcmds == parse_sub_commands(stdout)
              IN  /\ cmd \in DOMAIN helps => stdout = helps[cmd]
                  /\ Len(invoked) + 1 + Len(rest) + Len(new_subcmds) <= MaxCmds
                  /\ helps' = IF cmd \in DOMAIN helps THEN helps ELSE helps @@ (cmd :> stdout)
                  /\ invoked' = Append(invoked, cmd)
                  /\ todo_iter' = PushSubcommands(rest, cmd, new_subcmds)
                  /\ output' = IndexMapInsert(output, cmd, stdout)
    /\ UNCHANGED <<commands, readme, root_summary, root_indentation, pc,
                   invocation_failed, writes, out_files, summary_file, merge, parse>>

\* one turn of the while loop whose get_entry fails: the command exits with a
\* non-zero status, or its output is not UTF-8
DiscoverFails ==
    /\ pc.at = "discover"
    /\ todo_iter # <<>>
    /\ todo_iter[Len(todo_iter)] \notin DOMAIN helps
    /\ todo_iter' = SubSeq(todo_iter, 1, Len(todo_iter) - 1)
    /\ invoked' = Append(invoked, todo_iter[Len(todo_iter)])
    /\ invocation_failed' = TRUE
    /\ pc' = PropagateError
    /\ UNCHANGED <<commands, readme, root_summary, root_indentation, output, helps,
                   writes, out_files, summary_file, merge, parse>>

\* the while loop ends: todo_iter.pop() is None
DiscoveryDone ==
    /\ pc.at = "discover"
    /\ todo_iter = <<>>
    /\ pc' = At("markdown", 1)
    /\ UNCHANGED <<commands, readme, root_summary, root_indentation, todo_iter, output,
                   helps, invoked, invocation_failed, writes, out_files, summary_file,
                   merge, parse>>

\* a write of rendering: the file is written, or the write fails and main returns
WriteFile(kind, path, content, next) ==
    \/ /\ writes' = Append(writes, [kind |-> kind, path |-> path])
       /\ out_files' = [q \in (DOMAIN out_files) \cup {path} |->
                           IF q = path THEN content ELSE out_files[q]]
       /\ pc' = next
    \/ /\ pc' = At("failed", 0)
       /\ UNCHANGED <<writes, out_files>>

\* one turn of the loop over output: cmd_markdown
WriteMarkdown ==
    /\ pc.at = "markdown"
    /\ pc.i <= Len(output)
    /\ WriteFile("doc", DocPath(output[pc.i].key),
                 DocContent(output[pc.i].key, output[pc.i].value),
                 At("markdown", pc.i + 1))
    /\ UNCHANGED <<commands, readme, root_summary, root_indentation, todo_iter, output,
                   helps, invoked, invocation_failed, summary_file, merge, parse>>

\* main: out_dir.join("SUMMARY.md")
SummaryPath == PathJoin(OutDir, <<"SUMMARY", ".", "md">>)

\* main: write_file(out_dir/SUMMARY.md)
WriteSummary ==
    /\ pc.at = "markdown"
    /\ pc.i > Len(output)
    /\ WriteFile("summary", SummaryPath, SummaryText(output), At("readme", 0))
    /\ UNCHANGED <<commands, readme, root_summary, root_indentation, todo_iter, output,
                   helps, invoked, invocation_failed, summary_file, merge, parse>>

\* main: if args.readme, write_file(out_dir/README.md)
WriteReadme ==
    /\ pc.at = "readme"
    /\ IF readme
       THEN WriteFile("readme", PathJoin(OutDir, <<"README", ".", "md">>), README,
                      At("root", 0))
       ELSE pc' = At("root", 0) /\ UNCHANGED <<writes, out_files>>
    /\ UNCHANGED <<commands, readme, root_summary, root_indentation, todo_iter, output,
                   helps, invoked, invocation_failed, summary_file, merge, parse>>

\* main: if args.root_summary, update_root_summary, which returns an error when the
\* file cannot be read and exits the process when the markers are missing
UpdateRootSummary ==
    /\ pc.at = "root"
    /\ IF root_summary
       THEN LET text == RootSummaryText(output, root_indentation)
                r    == update_root_summary(summary_file, text)
            IN  IF r.status = MissingMarkers
                THEN /\ pc' \in {At(MissingMarkers, 0), At("failed", 0)}
                     /\ UNCHANGED <<writes, summary_file>>
                ELSE \E outcome \in WriteOutcomes :
                        /\ summary_file' = FileAfterWrite(outcome, summary_file, r.new)
                        /\ writes' = IF outcome = "create_failed" THEN writes
                                     ELSE Append(writes, [kind |-> "root",
                                                          path |-> <<"SUMMARY", ".", "md">>])
                        /\ pc' = IF outcome = "ok" THEN At("done", 0) ELSE At("failed", 0)
       ELSE pc' = At("done", 0) /\ UNCHANGED <<writes, summary_file>>
    /\ UNCHANGED <<commands, readme, root_summary, root_indentation, todo_iter, output,
                   helps, invoked, invocation_failed, out_files, merge, parse>>

Next ==
    \/ CreateOutDir
    \/ Discover
    \/ DiscoverFails
    \/ DiscoveryDone
    \/ WriteMarkdown
    \/ WriteSummary
    \/ WriteReadme
    \/ UpdateRootSummary

Spec == Init /\ [][Next]_vars

-----------------------------------------------------------------------------
(* Specification of parser runs: any help text, then one call *)

ParseAlphabet == {"Commands:", "Options:", "Arguments:", " ", "\n", "a", "help"}

Idle == "idle"

InitParse ==
    /\ parse \in {[s |-> t, done |-> FALSE, subcmds |-> <<>>] :
                     t \in StringsUpTo(ParseAlphabet, MaxTextLen)}
    /\ commands = <<>> /\ readme = FALSE /\ root_summary = FALSE
    /\ root_indentation = 0 /\ todo_iter = <<>> /\ output = <<>> /\ pc = Idle
    /\ helps = <<>> /\ invoked = <<>> /\ invocation_failed = FALSE
    /\ writes = <<>> /\ out_files = <<>> /\ summary_file = <<>> /\ merge = <<>>

CallParseSubCommands ==
    /\ ~parse.done
    /\ parse' = [parse EXCEPT !.done = TRUE, !.subcmds = parse_sub_commands(parse.s)]
    /\ UNCHANGED <<commands, readme, root_summary, root_indentation, todo_iter, output,
                   pc, helps, invoked, invocation_failed, writes, out_files,
                   summary_file, merge>>

NextParse == CallParseSubCommands

SpecParse == InitParse /\ [][NextParse]_vars

-----------------------------------------------------------------------------
(* Specification of merge runs: any root SUMMARY.md and any fragment, then the     *)
(* merge run once and, after a run that succeeded, once more with the same fragment *)

IndexAlphabet == {SECTION_START, SECTION_END, " ", "\n", "a"}

FragAlphabet == {"a", "\n", "$", SECTION_END}

InitMerge ==
    /\ summary_file \in StringsUpTo(IndexAlphabet, MaxIndexLen)
    /\ merge \in {[frag |-> f, runs |-> 0, status |-> "none", prev |-> <<>>] :
                     f \in StringsUpTo(FragAlphabet, MaxFragLen)}
    /\ commands = <<>> /\ readme = FALSE /\ root_summary = TRUE
    /\ root_indentation = 0 /\ todo_iter = <<>> /\ output = <<>> /\ pc = Idle
    /\ helps = <<>> /\ invoked = <<>> /\ invocation_failed = FALSE
    /\ writes = <<>> /\ out_files = <<>> /\ parse = <<>>

\* one call of update_root_summary; merge.prev is the content the call read
CallUpdateRootSummary ==
    /\ merge.runs < 2
    /\ merge.status \in {"none", "ok"}
    /\ LET r == update_root_summary(summary_file, merge.frag)
       IN  IF r.status = MissingMarkers
           THEN /\ merge' = [merge EXCEPT !.runs = @ + 1, !.status = MissingMarkers,
                                          !.prev = summary_file]
                /\ UNCHANGED summary_file
           ELSE \E outcome \in WriteOutcomes :
                   /\ summary_file' = FileAfterWrite(outcome, summary_file, r.new)
                   /\ merge' = [merge EXCEPT !.runs = @ + 1, !.status = outcome,
                                             !.prev = summary_file]
    /\ UNCHANGED <<commands, readme, root_summary, root_indentation, todo_iter, output,
                   pc, helps, invoked, invocation_failed, writes, out_files, parse>>

NextMerge == CallUpdateRootSummary

SpecMerge == InitMerge /\ [][NextMerge]_vars

-----------------------------------------------------------------------------
(* Properties of the run of main (Spec) *)

Range(s) == {s[i] : i \in 1..Len(s)}

\* the discovery loop has finished and main has gone on to rendering
Discovered == pc.at \in {"markdown", "readme", "root", "done", MissingMarkers}

RECURSIVE PreOrder(_)
\* pre-order traversal of the subtree of c: c, then the subtree of each child in the
\* order the help text of c lists them
PreOrder(c) ==
    LET kids == parse_sub_commands(helps[c])
    IN  <<c>> \o Flatten([i \in 1..Len(kids) |->
                             PreOrder(Cmd(c.cmd, Append(c.subcommands, kids[i])))])

\* pre-order traversal of the forest of the seeds, in the order supplied
ForestPreOrder ==
    Flatten([i \in 1..Len(commands) |-> PreOrder(CmdNew(commands[i]))])

\* C1: when the discovery loop has finished, the keys of the mapping, in order, are
\* the pre-order depth-first traversal of the forest of the seeds.
C1_KeyOrderIsPreOrder == Discovered => Keys(output) = ForestPreOrder

\* C2: no command is popped from the worklist and invoked more than once.
C2_NoCommandInvokedTwice ==
    \A i, j \in 1..Len(invoked) : i # j => invoked[i] # invoked[j]

\* C3: no command on the worklist and no key of the mapping has the name help among
\* its subcommand segments.
C3_HelpNeverASegment ==
    \A c \in Range(todo_iter) \cup Range(Keys(output)) :
        <<"help">> \notin Range(c.subcommands)

\* C3 witness: a command whose help text lists help first has been processed, and a
\* child of it is on the worklist.
C3_Witness ==
    \E e \in Range(output) :
        /\ CommandsSection(e.value) # <<>>
        /\ LET ls == Lines(CommandsSection(e.value)[1])
           IN  SubCommandCapture(ls[2]) = << <<"help">> >>
        /\ \E c \in Range(todo_iter) :
              c.cmd = e.key.cmd /\ Len(c.subcommands) = Len(e.key.subcommands) + 1

\* C4: rendering writes happen only once the worklist is empty and with no failed
\* invocation; a failed invocation leaves the run in the failed state with no
\* rendering write and no file under the output directory.
C4_NoRenderingAfterFailure ==
    /\ writes # <<>> => todo_iter = <<>> /\ ~invocation_failed
    /\ invocation_failed => pc.at = "failed" /\ writes = <<>> /\ out_files = <<>>

\* C4 witness: an invocation failed after earlier ones succeeded and are in the mapping.
C4_Witness == invocation_failed /\ pc.at = "failed" /\ Len(output) >= 2

\* the number of spaces a line starts with
LeadingSpaces(line) ==
    LET other == {i \in 1..Len(line) : line[i] # " "}
    IN  IF other = {} THEN Len(line) ELSE Min(other) - 1

\* key j of the mapping is a child of key i
IsChild(i, j) ==
    /\ output[j].key.cmd = output[i].key.cmd
    /\ Len(output[j].key.subcommands) = Len(output[i].key.subcommands) + 1
    /\ SubSeq(output[j].key.subcommands, 1, Len(output[i].key.subcommands))
          = output[i].key.subcommands

\* the lines ls are the listing of the mapping with base indent base
IndentedListing(ls, base) ==
    /\ Len(ls) >= Len(output)
    /\ \A i \in 1..Len(output) :
          LeadingSpaces(ls[i]) = base + 2 * Len(output[i].key.subcommands)
    /\ \A i, j \in 1..Len(output) :
          IsChild(i, j) => LeadingSpaces(ls[j]) = LeadingSpaces(ls[i]) + 2
    /\ \A i \in 1..(Len(output) - 1) :
          Len(output[i + 1].key.subcommands) >= Len(output[i].key.subcommands)
              => LeadingSpaces(ls[i + 1]) >= LeadingSpaces(ls[i])

\* C8: in the SUMMARY file written under the output directory, and in the listing
\* merged into the root summary, the line of every command is indented by the base
\* indent plus two spaces per segment: a child two more than its parent, and never
\* less than the line before when the depth does not decrease.
C8_SummaryIndentation ==
    /\ SummaryPath \in DOMAIN out_files
          => IndentedListing(Lines(out_files[SummaryPath]), 0)
    /\ pc.at = "done" /\ root_summary
          => IndentedListing(Tail(Lines(summary_file)), root_indentation)

\* C8 witness: a run that merged the root summary with a non-zero base indent and
\* whose mapping holds a command, its child and its grandchild.
C8_Witness ==
    /\ pc.at = "done" /\ root_summary /\ root_indentation = 2
    /\ \E i, j, k \in 1..Len(output) : IsChild(i, j) /\ IsChild(j, k)

\* C10: after a successful run the per-command documents written are as many as the
\* keys of the mapping: distinct commands have distinct document paths.
C10_OneDocumentPerCommand ==
    pc.at = "done" =>
        Cardinality({w.path : w \in {v \in Range(writes) : v.kind = "doc"}}) = Len(output)

-----------------------------------------------------------------------------
(* Properties of the parser (SpecParse) *)

\* C9: the subcommands returned are those of the lines after the first Commands:
\* up to the first line starting with Options: or Arguments: or the end of the
\* input, a later Commands: not ending the scan.
C9_ScanRunsToSectionEnd ==
    parse.done =>
        parse.subcmds =
            LET i == Find(parse.s, "Commands:")
            IN  IF i = 0 THEN <<>> ELSE SubCommandsOfSection(From(parse.s, i + 1))

-----------------------------------------------------------------------------
(* Properties of the merge (SpecMerge) *)

\* the last call read merge.prev, found the section and wrote the file
Merged == merge.runs >= 1 /\ merge.status = "ok"

\* position of the first end marker after position st
FirstEndAfter(s, st) == Min({i \in (st + 1)..Len(s) : s[i] = SECTION_END})

\* n is: head, then lead and the start marker, then any text, then the end marker and tail
Rewritten(n, head, lead, tail) ==
    LET h == head \o lead \o <<SECTION_START>>
    IN  /\ Len(n) >= Len(h) + 1 + Len(tail)
        /\ SubSeq(n, 1, Len(h)) = h
        /\ From(n, Len(n) - Len(tail)) = <<SECTION_END>> \o tail

\* C5: the merge applied twice with the same fragment leaves the file as the merge
\* applied once left it.
C5_MergeIdempotent == merge.runs = 2 /\ merge.status = "ok" => summary_file = merge.prev

\* C6: a successful merge leaves every character before the start marker and every
\* character after the end marker as it was.
C6_OnlySectionRewritten ==
    Merged =>
        LET st == Find(merge.prev, SECTION_START)
        IN  Rewritten(summary_file, SubSeq(merge.prev, 1, st - 1), <<>>,
                      From(merge.prev, FirstEndAfter(merge.prev, st) + 1))

\* C6, amended: a successful merge leaves as they were every character up to the last
\* one that is not whitespace before the start marker and every character after the
\* end marker; the whitespace directly before the start marker becomes one space.
C6_SectionAndLeadingSpaceRewritten ==
    Merged =>
        LET st == Find(merge.prev, SECTION_START)
        IN  Rewritten(summary_file, TrimEnd(SubSeq(merge.prev, 1, st - 1)), <<" ">>,
                      From(merge.prev, FirstEndAfter(merge.prev, st) + 1))

\* C6 witness: a merge that succeeded on a file with text and a line break before the
\* start marker.
C6_Witness ==
    /\ Merged
    /\ LET st == Find(merge.prev, SECTION_START)
       IN  st >= 3 /\ merge.prev[st - 1] = "\n" /\ merge.prev[1] = "a"

\* the content has no start marker with an end marker after it
LacksSection(s) ==
    ~\E i, j \in 1..Len(s) : i < j /\ s[i] = SECTION_START /\ s[j] = SECTION_END

\* C7: a call on a file without a start marker followed by an end marker ends in the
\* missing-markers failure and leaves the content of the file as it was.
C7_MissingMarkersLeaveFile ==
    merge.runs >= 1 /\ LacksSection(merge.prev)
        => merge.status = MissingMarkers /\ summary_file = merge.prev

\* C7 witness: a call on a file that holds both markers, the end marker first.
C7_Witness ==
    /\ merge.runs >= 1 /\ merge.status = MissingMarkers
    /\ Find(merge.prev, SECTION_START) > Find(merge.prev, SECTION_END)
    /\ Find(merge.prev, SECTION_END) > 0

====
